---- MODULE Spec2Model ----
(***************************************************************************)
(* A model of rustomaton's automata engine: the NFA and DFA values of      *)
(* src/src/nfa.rs and src/src/dfa.rs and the operations on them.           *)
(*                                                                         *)
(* Representation.  A state index is a natural number (0-based, as in the  *)
(* Rust code); `transitions` is a sequence, so state i owns the map        *)
(* transitions[i+1].  A HashMap<V, _> is a function whose DOMAIN is its    *)
(* key set.  A Vec<usize> of targets is modelled as the set of its         *)
(* elements: no operation modelled here reads the order or multiplicity of *)
(* a target list.  Where the code iterates a HashSet or HashMap the        *)
(* iteration order is unspecified; the model fixes one order where the     *)
(* order only renames states of the result, and keeps every outcome where  *)
(* the order decides between returning and panicking (is_empty).           *)
(*                                                                         *)
(* A panic (index out of bounds) is the value Panic; run returns one of    *)
(* the strings "true", "false", "panic".                                   *)
(***************************************************************************)
EXTENDS Integers, Sequences, FiniteSets, TLC

\* The symbol universe V and the bounds of the model.
Symbols == {"a", "b"}
MaxWord == 3
MaxLength == 1
MaxMatch == 1

Alphabets == SUBSET Symbols

WordsOfLen(n) == [1..n -> Symbols]

WordsUpTo(k) == UNION {WordsOfLen(n) : n \in 0..k}

Words == WordsUpTo(MaxWord)

Panic == [panic |-> TRUE]

IsPanic(r) == "panic" \in DOMAIN r

EmptyMap == [v \in {} |-> {}]

\* HashMap::get on a map of target lists: the targets, none for a missing key.
Get(m, v) == IF v \in DOMAIN m THEN m[v] ELSE {}

\* Number of states, transitions.len().
NLen(n) == Len(n.transitions)

\* Every target held by any transition of n.
Targets(n) == UNION {UNION {n.transitions[i][v] : v \in DOMAIN n.transitions[i]} : i \in 1..NLen(n)}

\* The data-model invariant of an NFA: every index is < transitions.len().
IndexValid(n) == \A s \in n.initials \cup n.finals \cup Targets(n) : s < NLen(n)

(***************************************************************************)
(* NFA constructors, nfa.rs:341-397.                                       *)
(***************************************************************************)
new_empty(alphabet) ==
    [alphabet |-> alphabet, initials |-> {}, finals |-> {}, transitions |-> <<>>]

new_full(alphabet) ==
    [alphabet |-> alphabet, initials |-> {0}, finals |-> {0},
     transitions |-> <<[v \in alphabet |-> {0}]>>]

\* transitions has l+1 maps and EVERY one of them, the last included, gets
\* v -> i+1 for every symbol (nfa.rs:361-365).
new_length(alphabet, l) ==
    [alphabet |-> alphabet, initials |-> {0}, finals |-> {l},
     transitions |-> [i \in 1..(l + 1) |-> [v \in alphabet |-> {i}]]]

\* The letters of s are inserted whether or not they are in the alphabet.
new_matching(alphabet, s) ==
    [alphabet |-> alphabet, initials |-> {0}, finals |-> {Len(s)},
     transitions |-> [i \in 1..(Len(s) + 1) |->
                        IF i <= Len(s) THEN [v \in {s[i]} |-> {i}] ELSE EmptyMap]]

new_empty_word(alphabet) ==
    [alphabet |-> alphabet, initials |-> {0}, finals |-> {0},
     transitions |-> <<EmptyMap>>]

(***************************************************************************)
(* Runnable for NFA, nfa.rs:430-455.                                       *)
(***************************************************************************)
RECURSIVE nfa_run_from(_, _, _)
nfa_run_from(n, actuals, v) ==
    IF v = <<>>
    THEN IF actuals \cap n.finals # {} THEN "true" ELSE "false"
    ELSE IF \E st \in actuals : st >= NLen(n)
         THEN "panic"
         ELSE LET next == UNION {Get(n.transitions[st + 1], Head(v)) : st \in actuals}
              IN  IF next = {} THEN "false" ELSE nfa_run_from(n, next, Tail(v))

nfa_run(n, v) ==
    IF n.initials = {} THEN "false" ELSE nfa_run_from(n, n.initials, v)

(***************************************************************************)
(* Helpers of crate::utils, used by unite and concatenate.                 *)
(***************************************************************************)
append_hashset(a, b) == a \cup b

shift_hashset(a, l) == {x + l : x \in a}

append_shift_hashset(a, b, l) == a \cup shift_hashset(b, l)

shift_transitions(t, l) ==
    [i \in 1..Len(t) |-> [v \in DOMAIN t[i] |-> shift_hashset(t[i][v], l)]]

append_shift_transitions(a, b) == a \o shift_transitions(b, Len(a))

shift_fnda(b, l) ==
    [alphabet |-> b.alphabet,
     initials |-> shift_hashset(b.initials, l),
     finals |-> shift_hashset(b.finals, l),
     transitions |-> shift_transitions(b.transitions, l)]

(***************************************************************************)
(* Iteration orders.  SeqOf fixes one order of a set; Perms is every       *)
(* order.                                                                  *)
(***************************************************************************)
RECURSIVE SeqOf(_)
SeqOf(S) ==
    IF S = {} THEN <<>>
    ELSE LET x == CHOOSE y \in S : \A z \in S : y <= z
         IN  <<x>> \o SeqOf(S \ {x})

RECURSIVE SymSeq(_)
SymSeq(S) ==
    IF S = {} THEN <<>>
    ELSE LET x == CHOOSE y \in S : TRUE
         IN  <<x>> \o SymSeq(S \ {x})

Perms(S) ==
    {p \in [1..Cardinality(S) -> S] : \A i, j \in 1..Cardinality(S) : i # j => p[i] # p[j]}

\* All targets of one state, over every key of its map.
Succ(n, e) == UNION {n.transitions[e + 1][k] : k \in DOMAIN n.transitions[e + 1]}

\* The orders in which newly found states may be pushed.  On an index-valid
\* automaton no pop can panic and the verdict of a walk does not depend on
\* the order, so one order stands for all.
PushOrders(n, new) == IF IndexValid(n) THEN {SeqOf(new)} ELSE Perms(new)

(***************************************************************************)
(* NFA::is_empty, nfa.rs:177-199: the set of outcomes over the iteration   *)
(* orders.  Popping e indexes transitions[e] (a panic when e is out of     *)
(* range); scanning e's targets returns false at the first final one.      *)
(***************************************************************************)
RECURSIVE is_empty_walk(_, _, _)
is_empty_walk(n, acc, stack) ==
    IF stack = <<>> THEN {"true"}
    ELSE LET e == stack[Len(stack)]
             rest == SubSeq(stack, 1, Len(stack) - 1)
         IN  IF e >= NLen(n) THEN {"panic"}
             ELSE IF Succ(n, e) \cap n.finals # {} THEN {"false"}
             ELSE LET new == Succ(n, e) \ acc
                  IN  UNION {is_empty_walk(n, acc \cup new, rest \o p) : p \in PushOrders(n, new)}

is_empty_outcomes(n) ==
    IF n.initials \cap n.finals # {} THEN {"false"}
    ELSE UNION {is_empty_walk(n, n.initials, p) : p \in PushOrders(n, n.initials)}

\* A reversal that keeps initials and finals where they were.
reverse_noswap(n) ==
    IF \E e \in Targets(n) : e >= NLen(n) THEN Panic
    ELSE [alphabet |-> n.alphabet,
          initials |-> n.initials,
          finals |-> n.finals,
          transitions |->
            [j \in 1..NLen(n) |->
               LET keys == {k \in Symbols : \E i \in 1..NLen(n) : (j - 1) \in Get(n.transitions[i], k)}
               IN  [k \in keys |-> {i - 1 : i \in {i2 \in 1..NLen(n) : (j - 1) \in Get(n.transitions[i2], k)}}]]]

(***************************************************************************)
(* NFA::reverse, nfa.rs:112-128.  transitions[*e] is indexed by every      *)
(* target e, so a target out of range panics.                              *)
(***************************************************************************)
reverse(n) ==
    IF \E e \in Targets(n) : e >= NLen(n) THEN Panic
    ELSE [alphabet |-> n.alphabet,
          initials |-> n.finals,
          finals |-> n.initials,
          transitions |->
            [j \in 1..NLen(n) |->
               LET keys == {k \in Symbols : \E i \in 1..NLen(n) : (j - 1) \in Get(n.transitions[i], k)}
               IN  [k \in keys |-> {i - 1 : i \in {i2 \in 1..NLen(n) : (j - 1) \in Get(n.transitions[i2], k)}}]]]

(***************************************************************************)
(* Automata for NFA: unite, concatenate, kleene, nfa.rs:459-546.           *)
(***************************************************************************)
unite(a, b) ==
    [alphabet |-> append_hashset(a.alphabet, b.alphabet),
     initials |-> append_shift_hashset(a.initials, b.initials, NLen(a)),
     finals |-> append_shift_hashset(a.finals, b.finals, NLen(a)),
     transitions |-> append_shift_transitions(a.transitions, b.transitions)]

\* Merge the map `add` into the map m: entry(v).or_insert(..).append(t).
MergeMap(m, add) ==
    [v \in DOMAIN m \cup DOMAIN add |-> Get(m, v) \cup Get(add, v)]

\* The transitions leaving the states of `from`, gathered into one map.
Leaving(t, from) ==
    LET keys == UNION {DOMAIN t[i + 1] : i \in from}
    IN  [k \in keys |-> UNION {Get(t[i + 1], k) : i \in from}]

concatenate(a, b) ==
    LET l == NLen(a)
        sb == shift_fnda(b, l)
        wire == Leaving(sb.transitions, {e - l : e \in sb.initials})
        wired == [i \in 1..l |->
                    IF (i - 1) \in a.finals
                    THEN MergeMap(a.transitions[i], wire)
                    ELSE a.transitions[i]]
    IN  [alphabet |-> append_hashset(a.alphabet, sb.alphabet),
         initials |-> a.initials,
         finals |-> IF sb.finals \cap sb.initials = {}
                    THEN sb.finals
                    ELSE append_hashset(a.finals, sb.finals),
         transitions |-> wired \o sb.transitions]

kleene(a) ==
    LET l == NLen(a)
        map == Leaving(a.transitions, a.initials)
        looped == [i \in 1..l |->
                     IF (i - 1) \in a.finals
                     THEN MergeMap(a.transitions[i], map)
                     ELSE a.transitions[i]]
    IN  [alphabet |-> a.alphabet,
         initials |-> {l},
         finals |-> a.finals \cup {l},
         transitions |-> Append(looped, map)]

(***************************************************************************)
(* Subset construction, nfa.rs:225-274 and 400-415.                        *)
(*                                                                         *)
(* The walk state st holds, in allocation order, the u128 keys of `map`    *)
(* (map[keys[i]] = i-1), the subsets queued with them, the DFA finals and  *)
(* the DFA transitions.  The queue is first-in first-out and every         *)
(* allocated subset is queued once, so the subset popped next is the one   *)
(* at position pos.                                                        *)
(***************************************************************************)
StateLimit == 128

RECURSIVE Bits(_)
Bits(S) ==
    IF S = {} THEN 0
    ELSE LET x == CHOOSE y \in S : TRUE
         IN  2 ^ x + Bits(S \ {x})

dfa_new_empty(alphabet) ==
    [alphabet |-> alphabet, initial |-> 0, finals |-> {}, transitions |-> <<EmptyMap>>]

\* A subset construction without the "if it.is_empty() { continue; }" of
\* nfa.rs:255-257: the empty subset becomes a state of the DFA.
RECURSIVE std_letters_keep_empty(_, _, _, _)
std_letters_keep_empty(n, st, pos, vs) ==
    IF vs = <<>> THEN st
    ELSE LET v == Head(vs)
             it == UNION {Get(n.transitions[s + 1], v) : s \in st.sets[pos]}
             other == Bits(it)
             known == \E i \in 1..Len(st.keys) : st.keys[i] = other
             st1 == IF known THEN st
                    ELSE [keys |-> Append(st.keys, other),
                          sets |-> Append(st.sets, it),
                          finals |-> IF it \cap n.finals # {}
                                     THEN st.finals \cup {Len(st.trans)}
                                     ELSE st.finals,
                          trans |-> Append(st.trans, EmptyMap)]
             num == (CHOOSE i \in 1..Len(st1.keys) : st1.keys[i] = other) - 1
         IN  std_letters_keep_empty(n, [st1 EXCEPT !.trans[pos] = (v :> num) @@ @], pos, Tail(vs))

RECURSIVE std_letters(_, _, _, _)
std_letters(n, st, pos, vs) ==
    IF vs = <<>> THEN st
    ELSE LET v == Head(vs)
             it == UNION {Get(n.transitions[s + 1], v) : s \in st.sets[pos]}
         IN  IF it = {} THEN std_letters(n, st, pos, Tail(vs))
             ELSE LET other == Bits(it)
                      known == \E i \in 1..Len(st.keys) : st.keys[i] = other
                      st1 == IF known THEN st
                             ELSE [keys |-> Append(st.keys, other),
                                   sets |-> Append(st.sets, it),
                                   finals |-> IF it \cap n.finals # {}
                                              THEN st.finals \cup {Len(st.trans)}
                                              ELSE st.finals,
                                   trans |-> Append(st.trans, EmptyMap)]
                      num == (CHOOSE i \in 1..Len(st1.keys) : st1.keys[i] = other) - 1
                  IN  std_letters(n, [st1 EXCEPT !.trans[pos] = (v :> num) @@ @], pos, Tail(vs))

RECURSIVE std_queue(_, _, _)
std_queue(n, st, pos) ==
    IF pos > Len(st.sets)
    THEN [alphabet |-> n.alphabet, initial |-> 0, finals |-> st.finals, transitions |-> st.trans]
    ELSE IF n.alphabet # {} /\ \E s \in st.sets[pos] : s >= NLen(n)
         THEN Panic
         ELSE std_queue(n, std_letters(n, st, pos, SymSeq(n.alphabet)), pos + 1)

small_to_dfa(n) ==
    std_queue(n,
              [keys |-> <<Bits(n.initials)>>,
               sets |-> <<n.initials>>,
               finals |-> IF n.initials \cap n.finals # {} THEN {0} ELSE {},
               trans |-> <<EmptyMap>>],
              1)

\* unimplemented!()
big_to_dfa(n) == Panic

to_dfa_outcomes(n) ==
    {IF e = "panic" THEN Panic
     ELSE IF e = "true" THEN dfa_new_empty(n.alphabet)
     ELSE IF NLen(n) < StateLimit THEN small_to_dfa(n)
     ELSE big_to_dfa(n) : e \in is_empty_outcomes(n)}

\* The result of to_dfa where it does not depend on the iteration order
\* (always so on an index-valid automaton).
to_dfa(n) == CHOOSE r \in to_dfa_outcomes(n) : TRUE

is_empty(n) == CHOOSE r \in is_empty_outcomes(n) : TRUE

(***************************************************************************)
(* The DFA engine, dfa.rs.                                                 *)
(***************************************************************************)
RECURSIVE dfa_run_from(_, _, _)
dfa_run_from(d, actual, v) ==
    IF v = <<>>
    THEN IF actual \in d.finals THEN "true" ELSE "false"
    ELSE IF Head(v) \in DOMAIN d.transitions[actual + 1]
         THEN dfa_run_from(d, d.transitions[actual + 1][Head(v)], Tail(v))
         ELSE "false"

dfa_run(d, v) == dfa_run_from(d, d.initial, v)

dfa_is_complete(d) ==
    \A i \in 1..Len(d.transitions) : \A v \in d.alphabet : v \in DOMAIN d.transitions[i]

dfa_complete(d) ==
    IF dfa_is_complete(d) THEN d
    ELSE LET l == Len(d.transitions)
             pushed == Append(d.transitions, EmptyMap)
         IN  [d EXCEPT !.transitions =
                [i \in 1..(l + 1) |->
                   [v \in DOMAIN pushed[i] \cup d.alphabet |->
                      IF v \in DOMAIN pushed[i] THEN pushed[i][v] ELSE l]]]

\* A negation that flips the final states without completing first.
dfa_negate_no_complete(d) ==
    [d EXCEPT !.finals = {x \in 0..(Len(d.transitions) - 1) : x \notin d.finals}]

dfa_negate(d) ==
    LET c == dfa_complete(d)
    IN  [c EXCEPT !.finals = {x \in 0..(Len(c.transitions) - 1) : x \notin c.finals}]

dfa_to_nfa(d) ==
    [alphabet |-> d.alphabet,
     initials |-> {d.initial},
     finals |-> d.finals,
     transitions |-> [i \in 1..Len(d.transitions) |->
                        [k \in DOMAIN d.transitions[i] |-> {d.transitions[i][k]}]]]

\* ToDfa for DFA: self.clone()
dfa_to_dfa(d) == d

dfa_unite(a, b) == to_dfa(unite(dfa_to_nfa(a), dfa_to_nfa(b)))

dfa_concatenate(a, b) == to_dfa(concatenate(dfa_to_nfa(a), dfa_to_nfa(b)))

dfa_intersect(a, b) == dfa_negate(dfa_unite(dfa_negate(a), dfa_negate(b)))

dfa_reverse(a) == to_dfa(reverse(dfa_to_nfa(a)))

\* A minimization that stops after the first reversal and determinization.
minimize_one_pass(a) == dfa_to_dfa(dfa_reverse(a))

minimize(a) == dfa_to_dfa(dfa_reverse(dfa_to_dfa(dfa_reverse(a))))

dfa_is_empty(d) == is_empty(dfa_to_nfa(d))

nfa_negate(n) == dfa_negate(to_dfa(n))

nfa_contains(a, b) == dfa_is_empty(dfa_intersect(nfa_negate(a), to_dfa(b)))

dfa_contains(a, b) == nfa_contains(dfa_to_nfa(a), dfa_to_nfa(b))

(***************************************************************************)
(* The outcomes of the NFA-side negate and contains, nfa.rs:32-34 and      *)
(* 130-133: a panic of to_dfa propagates.                                  *)
(***************************************************************************)
nfa_negate_outcomes(n) ==
    {IF IsPanic(t) THEN Panic ELSE dfa_negate(t) : t \in to_dfa_outcomes(n)}

nfa_contains_outcomes(a, b) ==
    {IF IsPanic(na) \/ IsPanic(tb) THEN "panic"
     ELSE dfa_is_empty(dfa_intersect(na, tb)) :
        na \in nfa_negate_outcomes(a), tb \in to_dfa_outcomes(b)}

(***************************************************************************)
(* NFA::is_complete and NFA::complete, nfa.rs:36-57 and 135-151.           *)
(***************************************************************************)
nfa_is_complete(n) ==
    /\ n.initials # {}
    /\ \A i \in 1..NLen(n) : \A v \in n.alphabet : Get(n.transitions[i], v) # {}

nfa_complete(n) ==
    IF nfa_is_complete(n) THEN n
    ELSE LET l == NLen(n)
             pushed == Append(n.transitions, EmptyMap)
         IN  [n EXCEPT
                !.transitions =
                   [i \in 1..(l + 1) |->
                      [v \in DOMAIN pushed[i] \cup n.alphabet |->
                         IF Get(pushed[i], v) = {} THEN {l} ELSE pushed[i][v]]],
                !.initials = IF n.initials = {} THEN {l} ELSE n.initials]

(***************************************************************************)
(* NFA::make_reachable, nfa.rs:59-102.  The walk pops every state it       *)
(* finds and indexes transitions[e], so it panics when a state out of      *)
(* range is found.  The survivors are then compacted by swaps in           *)
(* increasing index order, map sending each survivor to its new index.     *)
(***************************************************************************)
RECURSIVE Found(_, _, _)
Found(n, acc, frontier) ==
    IF frontier = {} THEN acc
    ELSE LET new == UNION {Succ(n, e) : e \in {f \in frontier : f < NLen(n)}} \ acc
         IN  Found(n, acc \cup new, new)

Swap(t, i, j) == [t EXCEPT ![i] = t[j], ![j] = t[i]]

RECURSIVE mr_compact(_, _, _, _, _)
mr_compact(t, acc, i, ind, map) ==
    IF i >= Len(t) THEN [transitions |-> SubSeq(t, 1, ind), map |-> map]
    ELSE IF i \in acc
         THEN mr_compact(Swap(t, i + 1, ind + 1), acc, i + 1, ind + 1, (i :> ind) @@ map)
         ELSE mr_compact(t, acc, i + 1, ind, map)

make_reachable(n) ==
    LET acc == Found(n, n.initials, n.initials)
    IN  IF \E e \in acc : e >= NLen(n) THEN Panic
        ELSE LET c == mr_compact(n.transitions, acc, 0, 0, EmptyMap)
             IN  [alphabet |-> n.alphabet,
                  initials |-> {c.map[i] : i \in n.initials},
                  finals |-> {c.map[i] : i \in n.finals \cap acc},
                  transitions |->
                     [k \in 1..Len(c.transitions) |->
                        [v \in DOMAIN c.transitions[k] |->
                           {c.map[t] : t \in c.transitions[k][v]}]]]

\* self.reverse().make_reachable().reverse()
make_coreachable(n) ==
    LET rv == reverse(n)
    IN  IF IsPanic(rv) THEN Panic
        ELSE LET m == make_reachable(rv)
             IN  IF IsPanic(m) THEN Panic ELSE reverse(m)

\* self.make_reachable().make_coreachable()
trim(n) ==
    LET m == make_reachable(n)
    IN  IF IsPanic(m) THEN Panic ELSE make_coreachable(m)

(***************************************************************************)
(* NFA::is_full, nfa.rs:201-223, and DFA::is_full, dfa.rs:106-108: the     *)
(* set of outcomes over the iteration orders, as for is_empty.             *)
(***************************************************************************)
RECURSIVE is_full_walk(_, _, _)
is_full_walk(n, acc, stack) ==
    IF stack = <<>> THEN {"true"}
    ELSE LET e == stack[Len(stack)]
             rest == SubSeq(stack, 1, Len(stack) - 1)
         IN  IF e >= NLen(n) THEN {"panic"}
             ELSE IF Succ(n, e) \ n.finals # {} THEN {"false"}
             ELSE LET new == Succ(n, e) \ acc
                  IN  UNION {is_full_walk(n, acc \cup new, rest \o p) : p \in PushOrders(n, new)}

is_full_outcomes(n) ==
    IF n.initials \cap n.finals = {} THEN {"false"}
    ELSE UNION {is_full_walk(n, n.initials, p) : p \in PushOrders(n, n.initials)}

dfa_is_full_outcomes(d) == is_full_outcomes(dfa_to_nfa(d))

(***************************************************************************)
(* Automata for NFA: at_most, at_least, repeat, nfa.rs:548-597.            *)
(***************************************************************************)
\* (0..k).fold(acc, |acc, _| acc.concatenate(self.clone()))
RECURSIVE fold_concatenate(_, _, _)
fold_concatenate(acc, self, k) ==
    IF k = 0 THEN acc
    ELSE fold_concatenate(concatenate(acc, self), self, k - 1)

at_most(a, u) ==
    LET self == IF a.initials \cap a.finals = {}
                THEN [a EXCEPT !.initials = @ \cup {NLen(a)},
                               !.finals = @ \cup {NLen(a)},
                               !.transitions = Append(@, EmptyMap)]
                ELSE a
    IN  fold_concatenate(new_empty_word(self.alphabet), self, u)

at_least(a, u) ==
    concatenate(fold_concatenate(new_empty_word(a.alphabet), a, u), kleene(a))

\* A bound of a RangeBounds<usize>: Included(k), Excluded(k) or Unbounded.
Included(k) == <<"Included", k>>

Excluded(k) == <<"Excluded", k>>

Unbounded == <<"Unbounded">>

\* The computation does not come back: with the end wrapped around to
\* usize::MAX, at_most folds usize::MAX - start concatenations.
Diverges == [diverges |-> TRUE]

\* The results of self.repeat(r) for r = [start |-> bound, end |-> bound].
\* For Excluded(0) as end bound, a - 1 underflows usize: a panic where
\* overflow checks are compiled in, usize::MAX where they are not.
repeat_outcomes(a, r) ==
    LET start == IF r.start[1] = "Included" THEN r.start[2]
                 ELSE IF r.start[1] = "Excluded" THEN r.start[2] + 1
                 ELSE 0
    IN  IF r.end[1] = "Unbounded" THEN {at_least(a, start)}
        ELSE IF r.end[1] = "Excluded" /\ r.end[2] = 0 THEN {Panic, Diverges}
        ELSE LET end == IF r.end[1] = "Included" THEN r.end[2] ELSE r.end[2] - 1
             IN  IF end < start THEN {new_empty(a.alphabet)}
                 ELSE {concatenate(fold_concatenate(new_empty_word(a.alphabet), a, start),
                                   at_most(a, end - start))}

(***************************************************************************)
(* Reference notions the properties are stated with.                       *)
(***************************************************************************)
WordsOver(al) == {v \in Words : \A i \in 1..Len(v) : v[i] \in al}

\* v = u1 u2 ... uk (k >= 0) with every ui accepted by n.
RECURSIVE InStar(_, _)
InStar(n, v) ==
    \/ v = <<>>
    \/ \E i \in 1..Len(v) :
          /\ nfa_run(n, SubSeq(v, 1, i)) = "true"
          /\ InStar(n, SubSeq(v, i + 1, Len(v)))

\* v = u1 u2 with u1 accepted by m and u2 accepted by n.
InConcat(m, n, v) ==
    \E i \in 0..Len(v) :
        /\ nfa_run(m, SubSeq(v, 1, i)) = "true"
        /\ nfa_run(n, SubSeq(v, i + 1, Len(v))) = "true"

\* The active set of run after one more symbol; a run that rejects or
\* panics accepts no continuation, which is the empty active set.
ActiveStep(n, S, v) ==
    IF \E st \in S : st >= NLen(n) THEN {}
    ELSE UNION {Get(n.transitions[st + 1], v) : st \in S}

RECURSIVE ActivePairsFrom(_, _, _, _)
ActivePairsFrom(m, n, seen, frontier) ==
    IF frontier = {} THEN seen
    ELSE LET next == {<<ActiveStep(m, p[1], v), ActiveStep(n, p[2], v)>> :
                          p \in frontier, v \in Symbols} \ seen
         IN  ActivePairsFrom(m, n, seen \cup next, next)

\* Every word (of any length) accepted by n is accepted by m.
LanguageIncluded(n, m) ==
    \A p \in ActivePairsFrom(m, n, {<<m.initials, n.initials>>}, {<<m.initials, n.initials>>}) :
        (p[2] \cap n.finals # {}) => (p[1] \cap m.finals # {})

\* The orders in which a depth-first walk from the initial states can
\* discover the states of n (none if the walk leaves the state table).
RECURSIVE DiscoveryWalk(_, _, _)
DiscoveryWalk(n, order, stack) ==
    IF stack = <<>> THEN {order}
    ELSE LET e == stack[Len(stack)]
             rest == SubSeq(stack, 1, Len(stack) - 1)
         IN  IF e >= NLen(n) THEN {}
             ELSE LET new == Succ(n, e) \ {order[i] : i \in 1..Len(order)}
                  IN  UNION {DiscoveryWalk(n, order \o p, rest \o p) : p \in Perms(new)}

DiscoveryOrders(n) == UNION {DiscoveryWalk(n, p, p) : p \in Perms(n.initials)}

\* n restricted to the states of `order`, state order[k] renamed k - 1.
Renumbered(n, order) ==
    LET kept == {order[i] : i \in 1..Len(order)}
        new(q) == (CHOOSE k \in 1..Len(order) : order[k] = q) - 1
    IN  [alphabet |-> n.alphabet,
         initials |-> {new(q) : q \in n.initials},
         finals |-> {new(q) : q \in n.finals \cap kept},
         transitions |->
            [k \in 1..Len(order) |->
               [v \in DOMAIN n.transitions[order[k] + 1] |->
                  {new(q) : q \in n.transitions[order[k] + 1][v]}]]]

\* The completed automaton of a DFA: Dead is the state every missing
\* transition leads to.
Dead == 0 - 1

DStep(t, q, v) ==
    IF q = Dead THEN Dead
    ELSE IF v \in DOMAIN t.transitions[q + 1] THEN t.transitions[q + 1][v]
    ELSE Dead

RECURSIVE DReachFrom(_, _, _)
DReachFrom(t, seen, frontier) ==
    IF frontier = {} THEN seen
    ELSE LET next == {DStep(t, q, v) : q \in frontier, v \in t.alphabet} \ seen
         IN  DReachFrom(t, seen \cup next, next)

DReach(t) == DReachFrom(t, {t.initial}, {t.initial})

\* The pairs of states some word over the alphabet tells apart.
RECURSIVE Distinguished(_, _, _)
Distinguished(t, Q, D) ==
    LET D2 == D \cup {p \in Q \X Q : \E v \in t.alphabet :
                          <<DStep(t, p[1], v), DStep(t, p[2], v)>> \in D}
    IN  IF D2 = D THEN D ELSE Distinguished(t, Q, D2)

\* The classes of states with equal residual language, Dead included.
ResidualClasses(t) ==
    LET Q == DReach(t) \cup {Dead}
        D == Distinguished(t, Q, {p \in Q \X Q : (p[1] \in t.finals) # (p[2] \in t.finals)})
    IN  {{q \in Q : <<p, q>> \notin D} : p \in Q}

\* The number of Myhill-Nerode classes of the language of t over t's
\* alphabet: the residuals of the words, i.e. of the reachable states.
NerodeClasses(t) ==
    Cardinality({C \in ResidualClasses(t) : C \cap DReach(t) # {}})

\* The classes whose residual language is not empty.
LiveClasses(t) ==
    Cardinality({C \in ResidualClasses(t) : Dead \notin C})

(***************************************************************************)
(* The regex parser (parser.rs).  A token is the pair (kind, slice) the    *)
(* lexer yields; an Operations tree is a tuple headed by its variant.      *)
(* Every read_* function takes the token queue and returns its Result      *)
(* together with the queue it leaves: res is "Ok" (val the tree), "Err"    *)
(* (val the message) or "Panic" (unreachable!() was executed).             *)
(***************************************************************************)
MaxTokens == 4

Token ==
    { <<"Error", "#">>, <<"Union", "|">>, <<"Lpar", "(">>, <<"Rpar", ")">>,
      <<"Dot", ".">>, <<"Kleene", "*">>, <<"Question", "?">>, <<"Plus", "+">>,
      <<"Epsilon", "eps">>, <<"Letter", "a">> }

\* The queues tokens(s) can return: End is never pushed.
TokenQueues == UNION {[1..m -> Token] : m \in 0..MaxTokens}

None == <<"None">>
Some(k) == <<"Some", k>>
OpDot == <<"Dot">>
OpEpsilon == <<"Epsilon">>
OpLetter(c) == <<"Letter", c>>
OpConcat(c) == <<"Concat", c>>
OpUnion(u) == <<"Union", u>>
OpRepeat(o, lo, hi) == <<"Repeat", o, lo, hi>>

Ok(val, rest) == [res |-> "Ok", val |-> val, rest |-> rest]
Err(msg, rest) == [res |-> "Err", val |-> msg, rest |-> rest]
Unreachable(rest) == [res |-> "Panic", val |-> <<"unreachable">>, rest |-> rest]

\* peak(tokens): the kind of the first token, "absent" for Option::None.
peak(ts) == IF ts = <<>> THEN "absent" ELSE ts[1][1]

\* read_quantif with the suffixes nested the other way round (the last
\* suffix innermost).
RECURSIVE read_quantif_last_innermost(_, _)
read_quantif_last_innermost(ts, o) ==
    IF peak(ts) \in {"Plus", "Kleene", "Question"}
    THEN LET rq == read_quantif_last_innermost(Tail(ts), o)
         IN  [val |-> IF peak(ts) = "Plus" THEN OpRepeat(rq.val, 1, None)
                      ELSE IF peak(ts) = "Kleene" THEN OpRepeat(rq.val, 0, None)
                      ELSE OpRepeat(rq.val, 0, Some(1)),
              rest |-> rq.rest]
    ELSE [val |-> o, rest |-> ts]

RECURSIVE read_quantif(_, _)
read_quantif(ts, o) ==
    IF peak(ts) = "Plus" THEN read_quantif(Tail(ts), OpRepeat(o, 1, None))
    ELSE IF peak(ts) = "Kleene" THEN read_quantif(Tail(ts), OpRepeat(o, 0, None))
    ELSE IF peak(ts) = "Question" THEN read_quantif(Tail(ts), OpRepeat(o, 0, Some(1)))
    ELSE [val |-> o, rest |-> ts]

read_letter(ts) ==
    IF peak(ts) \in {"Dot", "Epsilon", "Letter"}
    THEN LET o == IF peak(ts) = "Dot" THEN OpDot
                  ELSE IF peak(ts) = "Epsilon" THEN OpEpsilon
                  ELSE OpLetter(ts[1][2])
             rq == read_quantif(Tail(ts), o)
         IN  Ok(rq.val, rq.rest)
    ELSE Err(<<"Expected letter">>, ts)

RECURSIVE read_union_loop(_, _)
RECURSIVE read_concat_loop(_, _)
RECURSIVE read_paren(_)

read_union(ts) == read_union_loop(ts, <<>>)

read_paren(ts) ==
    IF peak(ts) # "Lpar" THEN Err(<<"Expected left parenthesis.">>, ts)
    ELSE LET ru == read_union(Tail(ts))
         IN  IF ru.res # "Ok" THEN ru
             ELSE IF peak(ru.rest) # "Rpar"
             THEN Err(<<"Expected right parenthesis.">>, ru.rest)
             ELSE LET rq == read_quantif(Tail(ru.rest), ru.val)
                  IN  Ok(rq.val, rq.rest)

\* The while loop of read_concat with c the children read so far.
read_concat_loop(ts, c) ==
    IF peak(ts) \in {"Dot", "Epsilon", "Letter"}
    THEN LET rl == read_letter(ts)
         IN  IF rl.res # "Ok" THEN rl
             ELSE read_concat_loop(rl.rest, Append(c, rl.val))
    ELSE IF peak(ts) = "Lpar"
    THEN LET rp == read_paren(ts)
         IN  IF rp.res # "Ok" THEN rp
             ELSE read_concat_loop(rp.rest, Append(c, rp.val))
    ELSE IF peak(ts) \in {"Kleene", "Plus", "Question"}
    THEN Err(<<"Unexpected", ts[1][2]>>, ts)
    ELSE IF peak(ts) \in {"absent", "Rpar", "Union", "End"}
    THEN IF Len(c) = 1 THEN Ok(c[1], ts) ELSE Ok(OpConcat(c), ts)
    ELSE Unreachable(ts)

read_concat(ts) == read_concat_loop(ts, <<>>)

\* The loop of read_union with u the alternatives read so far.
read_union_loop(ts, u) ==
    LET rc == read_concat(ts)
    IN  IF rc.res # "Ok" THEN rc
        ELSE IF peak(rc.rest) = "Union"
        THEN read_union_loop(Tail(rc.rest), Append(u, rc.val))
        ELSE IF Len(u) = 0 THEN Ok(rc.val, rc.rest)
        ELSE Ok(OpUnion(Append(u, rc.val)), rc.rest)

(***************************************************************************)
(* Reference notion for the parser: the tree a token string denotes under  *)
(* the precedence ( ) > * + ? > juxtaposition > |, obtained by splitting   *)
(* the string, without a cursor.                                           *)
(***************************************************************************)
\* The nesting depth after the first i tokens of p.
RECURSIVE Depth(_, _)
Depth(p, i) ==
    IF i = 0 THEN 0
    ELSE Depth(p, i - 1) + (IF p[i][1] = "Lpar" THEN 1
                            ELSE IF p[i][1] = "Rpar" THEN 0 - 1 ELSE 0)

\* The pieces of p between the tokens of kind sep that lie outside every
\* parenthesis.
SplitTop(p, sep) ==
    LET cuts == {i \in 1..Len(p) : p[i][1] = sep /\ Depth(p, i) = 0}
        bnds == SeqOf({0} \cup cuts \cup {Len(p) + 1})
    IN  [k \in 1..(Len(bnds) - 1) |-> SubSeq(p, bnds[k] + 1, bnds[k + 1] - 1)]

Quantifiers == {"Kleene", "Plus", "Question"}

\* The positions of p where an item starts: a letter or an opening
\* parenthesis outside every parenthesis.
ItemStarts(p) ==
    {i \in 1..Len(p) : /\ Depth(p, i - 1) = 0
                       /\ p[i][1] \in {"Dot", "Epsilon", "Letter", "Lpar"}}

\* The items of a |-free piece: each runs up to the next item start.
Items(p) ==
    LET bnds == SeqOf(ItemStarts(p) \cup {Len(p) + 1})
    IN  [k \in 1..(Len(bnds) - 1) |-> SubSeq(p, bnds[k], bnds[k + 1] - 1)]

\* The suffixes q wrapped around o, the first one innermost.
RECURSIVE Wrapped(_, _)
Wrapped(o, q) ==
    IF q = <<>> THEN o
    ELSE LET k == q[Len(q)][1]
             inner == Wrapped(o, SubSeq(q, 1, Len(q) - 1))
         IN  IF k = "Kleene" THEN OpRepeat(inner, 0, None)
             ELSE IF k = "Plus" THEN OpRepeat(inner, 1, None)
             ELSE OpRepeat(inner, 0, Some(1))

RECURSIVE Denotes(_)
\* An item: an atom followed by its suffixes.
ItemDenotes(p) ==
    LET m == IF p[1][1] = "Lpar"
             THEN CHOOSE j \in 2..Len(p) :
                      /\ Depth(p, j) = 0
                      /\ \A i \in 1..(j - 1) : Depth(p, i) > 0
             ELSE 1
        atom == IF p[1][1] = "Lpar" THEN Denotes(SubSeq(p, 2, m - 1))
                ELSE IF p[1][1] = "Dot" THEN OpDot
                ELSE IF p[1][1] = "Epsilon" THEN OpEpsilon
                ELSE OpLetter(p[1][2])
    IN  Wrapped(atom, SubSeq(p, m + 1, Len(p)))

ConcatDenotes(p) ==
    LET items == Items(p)
    IN  IF Len(items) = 1 THEN ItemDenotes(items[1])
        ELSE OpConcat([k \in 1..Len(items) |-> ItemDenotes(items[k])])

Denotes(p) ==
    LET alts == SplitTop(p, "Union")
    IN  IF Len(alts) = 1 THEN ConcatDenotes(alts[1])
        ELSE OpUnion([k \in 1..Len(alts) |-> ConcatDenotes(alts[k])])

(***************************************************************************)
(* The state machine: a caller of the library.                             *)
(*                                                                         *)
(*   pc   "build": NFA values are constructed and combined;                *)
(*        "dfa":   the NFA x has been determinized and DFA operations are  *)
(*                 applied; "panic": an operation panicked.                *)
(*   x, y the NFA operands (self and b); a is self before the last NFA     *)
(*        operation.                                                       *)
(*   d, e the DFA operands (self and b); da is self before the last DFA    *)
(*        operation.                                                       *)
(*   n    the number of operators applied since the constructors.          *)
(*   op   the last operation; w and r the word and the result of the last  *)
(*        query.                                                           *)
(*   range  the bounds given to the last repeat.                           *)
(*   st, pos  the worklist of small_to_dfa: the subsets queued so far,     *)
(*        with the DFA built for them, and the index of the next to pop.   *)
(*   tokens, tree  the token queue handed to the parser and the payload    *)
(*        of the Result it returned; pos then counts the tokens popped.    *)
(***************************************************************************)
VARIABLES pc, op, n, x, y, a, d, e, da, w, r, range, st, pos, tokens, tree

vars == <<pc, op, n, x, y, a, d, e, da, w, r, range, st, pos, tokens, tree>>

MaxOps == 1
MaxDfaOps == 2

Init ==
    /\ pc = "build"
    /\ op = "init"
    /\ n = 0
    /\ x = new_empty({})
    /\ y = new_empty({})
    /\ a = new_empty({})
    /\ d = dfa_new_empty({})
    /\ e = dfa_new_empty({})
    /\ da = dfa_new_empty({})
    /\ w = <<>>
    /\ r = "none"
    /\ range = [start |-> Unbounded, end |-> Unbounded]
    /\ st = [keys |-> <<>>, sets |-> <<>>, finals |-> {}, trans |-> <<>>]
    /\ pos = 0
    /\ tokens = <<>>
    /\ tree = <<"none">>

\* A constructor call: the new value becomes self, the former self the operand.
Constructed(name) ==
    /\ pc = "build"
    /\ n = 0
    /\ y' = x
    /\ op' = name
    /\ UNCHANGED <<range, st, pos, tokens, tree, pc, n, a, d, e, da, w, r>>

NewEmpty ==
    \E al \in Alphabets :
        /\ Constructed("new_empty")
        /\ x' = new_empty(al)

NewFull ==
    \E al \in Alphabets :
        /\ Constructed("new_full")
        /\ x' = new_full(al)

NewLength ==
    \E al \in Alphabets, l \in 0..MaxLength :
        /\ Constructed("new_length")
        /\ x' = new_length(al, l)

NewMatching ==
    \E al \in Alphabets, s \in WordsUpTo(MaxMatch) :
        /\ Constructed("new_matching")
        /\ x' = new_matching(al, s)

NewEmptyWord ==
    \E al \in Alphabets :
        /\ Constructed("new_empty_word")
        /\ x' = new_empty_word(al)

\* An NFA operator consuming self (and b): the result becomes self.
Operate(name, val) ==
    /\ pc = "build"
    /\ n < MaxOps
    /\ n' = n + 1
    /\ op' = name
    /\ a' = x
    /\ IF IsPanic(val)
       THEN pc' = "panic" /\ x' = x
       ELSE pc' = pc /\ x' = val
    /\ UNCHANGED <<range, st, pos, tokens, tree, y, d, e, da, w, r>>

Unite == Operate("unite", unite(x, y))

Concatenate == Operate("concatenate", concatenate(x, y))

Kleene == Operate("kleene", kleene(x))

Reverse == Operate("reverse", reverse(x))

\* x.run(w)
Run ==
    /\ pc = "build"
    /\ \E v \in Words :
          /\ w' = v
          /\ r' = nfa_run(x, v)
    /\ op' = "run"
    /\ pc' = IF r' = "panic" THEN "panic" ELSE "done"
    /\ UNCHANGED <<range, st, pos, tokens, tree, n, x, y, a, d, e, da>>

\* x.contains(&y)
NfaContains ==
    /\ pc = "build"
    /\ r' \in nfa_contains_outcomes(x, y)
    /\ op' = "nfa_contains"
    /\ pc' = IF r' = "panic" THEN "panic" ELSE "done"
    /\ UNCHANGED <<range, st, pos, tokens, tree, n, x, y, a, d, e, da, w>>

\* x.to_dfa(): the DFA operations start from its result, and n counts them.
ToDfa ==
    /\ pc = "build"
    /\ \E t \in to_dfa_outcomes(x) :
          IF IsPanic(t)
          THEN pc' = "panic" /\ d' = d
          ELSE pc' = "dfa" /\ d' = t
    /\ op' = "to_dfa"
    /\ n' = 0
    /\ UNCHANGED <<range, st, pos, tokens, tree, x, y, a, e, da, w, r>>

\* y.to_dfa(): the operand b of the binary DFA operations.
ToDfaB ==
    /\ pc = "dfa"
    /\ op = "to_dfa"
    /\ \E t \in to_dfa_outcomes(y) :
          IF IsPanic(t)
          THEN pc' = "panic" /\ e' = e
          ELSE pc' = pc /\ e' = t
    /\ op' = "to_dfa_b"
    /\ UNCHANGED <<range, st, pos, tokens, tree, n, x, y, a, d, da, w, r>>

\* A DFA operator consuming self: the result becomes self.  A binary
\* operator takes the operand b that y.to_dfa() has just produced.
DfaOperate(name, val) ==
    /\ pc = "dfa"
    /\ n < MaxDfaOps
    /\ n' = n + 1
    /\ op' = name
    /\ da' = d
    /\ d' = val
    /\ UNCHANGED <<range, st, pos, tokens, tree, pc, x, y, a, e, w, r>>

Negate == DfaOperate("negate", dfa_negate(d))

Complete == DfaOperate("complete", dfa_complete(d))

Minimize == DfaOperate("minimize", minimize(d))

Intersect == op = "to_dfa_b" /\ DfaOperate("intersect", dfa_intersect(d, e))

DfaUnite == op = "to_dfa_b" /\ DfaOperate("dfa_unite", dfa_unite(d, e))

DfaConcatenate == op = "to_dfa_b" /\ DfaOperate("dfa_concatenate", dfa_concatenate(d, e))

\* d.contains(&e)
DfaContains ==
    /\ pc = "dfa"
    /\ op = "to_dfa_b"
    /\ r' = dfa_contains(d, e)
    /\ op' = "dfa_contains"
    /\ pc' = "done"
    /\ UNCHANGED <<range, st, pos, tokens, tree, n, x, y, a, d, e, da, w>>

\* d.run(w)
DfaRun ==
    /\ pc = "dfa"
    /\ \E v \in Words :
          /\ w' = v
          /\ r' = dfa_run(d, v)
    /\ op' = "dfa_run"
    /\ pc' = "done"
    /\ UNCHANGED <<range, st, pos, tokens, tree, n, x, y, a, d, e, da>>

\* The NFA engine: construction, composition, acceptance, determinization.
Next ==
    \/ NewEmpty
    \/ NewFull
    \/ NewLength
    \/ NewMatching
    \/ NewEmptyWord
    \/ Unite
    \/ Concatenate
    \/ Kleene
    \/ Reverse
    \/ Run
    \/ ToDfa
    \/ DfaRun

Spec == Init /\ [][Next]_vars

\* The DFA engine: DFAs obtained by determinizing constructed NFAs, and the
\* DFA algebra on them.
NextDfa ==
    \/ NewEmpty
    \/ NewFull
    \/ NewLength
    \/ NewMatching
    \/ NewEmptyWord
    \/ NfaContains
    \/ ToDfa
    \/ ToDfaB
    \/ Negate
    \/ Complete
    \/ Minimize
    \/ Intersect
    \/ DfaUnite
    \/ DfaConcatenate
    \/ DfaContains

SpecDfa == Init /\ [][NextDfa]_vars

MaxGraphOps == 1
MaxRepeat == 2

\* An NFA graph operation consuming self, after the composition operators.
GraphOperate(name, val) ==
    /\ pc = "build"
    /\ n < MaxOps + MaxGraphOps
    /\ n' = n + 1
    /\ op' = name
    /\ a' = x
    /\ IF IsPanic(val)
       THEN pc' = "panic" /\ x' = x
       ELSE pc' = pc /\ x' = val
    /\ UNCHANGED <<range, st, pos, tokens, tree, y, d, e, da, w, r>>

NfaComplete == GraphOperate("complete", nfa_complete(x))

MakeReachable == GraphOperate("make_reachable", make_reachable(x))

MakeCoreachable == GraphOperate("make_coreachable", make_coreachable(x))

Trim == GraphOperate("trim", trim(x))

AtMost == \E u \in 0..MaxRepeat : Operate("at_most", at_most(x, u))

AtLeast == \E u \in 0..MaxRepeat : Operate("at_least", at_least(x, u))

\* The bounds a range can carry.
RangeBounds == {Unbounded} \cup {Included(k) : k \in 0..MaxRepeat} \cup {Excluded(k) : k \in 0..MaxRepeat}

\* x.repeat(range)
Repeat ==
    /\ pc = "build"
    /\ n < MaxOps
    /\ n' = n + 1
    /\ op' = "repeat"
    /\ a' = x
    /\ \E s \in RangeBounds, t \in RangeBounds :
          /\ range' = [start |-> s, end |-> t]
          /\ \E res \in repeat_outcomes(x, [start |-> s, end |-> t]) :
                IF IsPanic(res) THEN pc' = "panic" /\ x' = x
                ELSE IF res = Diverges THEN pc' = "diverges" /\ x' = x
                ELSE pc' = pc /\ x' = res
    /\ UNCHANGED <<st, pos, tokens, tree, y, d, e, da, w, r>>

\* x.is_full()
IsFull ==
    /\ pc = "build"
    /\ r' \in is_full_outcomes(x)
    /\ op' = "is_full"
    /\ pc' = IF r' = "panic" THEN "panic" ELSE "done"
    /\ UNCHANGED <<range, st, pos, tokens, tree, n, x, y, a, d, e, da, w>>

\* d.is_full()
DfaIsFull ==
    /\ pc = "dfa"
    /\ r' \in dfa_is_full_outcomes(d)
    /\ op' = "dfa_is_full"
    /\ pc' = IF r' = "panic" THEN "panic" ELSE "done"
    /\ UNCHANGED <<range, st, pos, tokens, tree, n, x, y, a, d, e, da, w>>

\* The NFA graph algorithms and bounded repetition.
NextGraph ==
    \/ NewEmpty
    \/ NewFull
    \/ NewLength
    \/ NewMatching
    \/ NewEmptyWord
    \/ Unite
    \/ Concatenate
    \/ Kleene
    \/ Reverse
    \/ NfaComplete
    \/ MakeReachable
    \/ MakeCoreachable
    \/ Trim
    \/ AtMost
    \/ AtLeast
    \/ Repeat
    \/ IsFull
    \/ ToDfa
    \/ DfaIsFull

SpecGraph == Init /\ [][NextGraph]_vars

\* tokens(s): the lexer has scanned a source string into a token queue.
Tokens ==
    /\ pc = "build"
    /\ op = "init"
    /\ \E q \in TokenQueues : tokens' = q
    /\ pc' = "tokens"
    /\ op' = "tokens"
    /\ UNCHANGED <<range, st, pos, tree, n, x, y, a, d, e, da, w, r>>

\* read_union(&mut tokens): r is the variant of the Result, tree its
\* payload and pos the number of tokens popped off the queue.
ReadUnion ==
    /\ pc = "tokens"
    /\ LET ru == read_union(tokens)
       IN  /\ pc' = IF ru.res = "Panic" THEN "panic" ELSE "parsed"
           /\ r' = ru.res
           /\ tree' = ru.val
           /\ pos' = Len(tokens) - Len(ru.rest)
    /\ op' = "read_union"
    /\ UNCHANGED <<range, st, tokens, n, x, y, a, d, e, da, w>>

NextParse ==
    \/ Tokens
    \/ ReadUnion

SpecParse == Init /\ [][NextParse]_vars

\* x.to_dfa() up to the first pop of the worklist of small_to_dfa: the
\* is_empty shortcut, the size test, and the initial subset queued.
StdStart ==
    /\ pc = "build"
    /\ \E em \in is_empty_outcomes(x) :
          IF em = "panic"
          THEN /\ pc' = "panic" /\ op' = "to_dfa"
               /\ UNCHANGED <<d, st, pos>>
          ELSE IF em = "true"
          THEN /\ pc' = "dfa" /\ op' = "to_dfa"
               /\ d' = dfa_new_empty(x.alphabet)
               /\ UNCHANGED <<st, pos>>
          ELSE IF NLen(x) < StateLimit
          THEN /\ pc' = "std" /\ op' = "small_to_dfa"
               /\ st' = [keys |-> <<Bits(x.initials)>>,
                         sets |-> <<x.initials>>,
                         finals |-> IF x.initials \cap x.finals # {} THEN {0} ELSE {},
                         trans |-> <<EmptyMap>>]
               /\ pos' = 1
               /\ d' = d
          ELSE /\ pc' = "panic" /\ op' = "big_to_dfa"
               /\ UNCHANGED <<d, st, pos>>
    /\ UNCHANGED <<range, tokens, tree, n, x, y, a, e, da, w, r>>

\* One turn of `while let Some((elem, iter)) = stack.pop_front()`: the
\* subset at the head of the worklist is expanded on every letter.
StdPop ==
    /\ pc = "std"
    /\ pos <= Len(st.sets)
    /\ IF x.alphabet # {} /\ \E q \in st.sets[pos] : q >= NLen(x)
       THEN pc' = "panic" /\ UNCHANGED <<st, pos>>
       ELSE /\ st' = std_letters(x, st, pos, SymSeq(x.alphabet))
            /\ pos' = pos + 1
            /\ pc' = pc
    /\ UNCHANGED <<range, tokens, tree, op, n, x, y, a, d, e, da, w, r>>

\* The worklist is empty: small_to_dfa returns the DFA.
StdDone ==
    /\ pc = "std"
    /\ pos > Len(st.sets)
    /\ d' = [alphabet |-> x.alphabet, initial |-> 0, finals |-> st.finals, transitions |-> st.trans]
    /\ pc' = "dfa"
    /\ op' = "to_dfa"
    /\ UNCHANGED <<range, st, pos, tokens, tree, n, x, y, a, e, da, w, r>>

\* Subset construction, one worklist turn at a time.
NextStd ==
    \/ NewEmpty
    \/ NewFull
    \/ NewLength
    \/ NewMatching
    \/ NewEmptyWord
    \/ Unite
    \/ Concatenate
    \/ Kleene
    \/ Reverse
    \/ StdStart
    \/ StdPop
    \/ StdDone

SpecStd == Init /\ [][NextStd]_vars

\* The loop of small_to_dfa keeps running until it returns or panics.
SpecStdFair == SpecStd /\ WF_vars(StdPop) /\ WF_vars(StdDone)

(***************************************************************************)
(* Properties.                                                             *)
(***************************************************************************)

\* The length argument of the last new_length call: its one final state.
LengthArg == CHOOSE l \in x.finals : TRUE

\* What an automaton of the words of exactly l symbols of al answers on v.
ExactLength(al, l, v) ==
    IF Len(v) = l /\ (\A i \in 1..Len(v) : v[i] \in al) THEN "true" ELSE "false"

\* C1: subset construction preserves the language: after x.to_dfa() the
\* DFA d exists and d.run(v) equals x.run(v) for every word v.
C1_ToDfaPreservesLanguage ==
    op = "to_dfa" =>
        /\ pc = "dfa"
        /\ \A v \in Words : dfa_run(d, v) = nfa_run(x, v)

\* C2: containment decides language inclusion: self.contains(b) answers
\* true exactly when every word b accepts is accepted by self, for DFAs
\* (d, e) and for NFAs (x, y), whatever their alphabets.
C2_ContainsDecidesInclusion ==
    /\ op = "dfa_contains" =>
          (r = "true" <=> LanguageIncluded(dfa_to_nfa(e), dfa_to_nfa(d)))
    /\ op = "nfa_contains" =>
          (r = "true" <=> LanguageIncluded(y, x))

\* C3: minimize preserves the language: the minimized DFA d and its
\* input da answer alike on every word.
C3_MinimizePreservesLanguage ==
    op = "minimize" => \A v \in Words : dfa_run(d, v) = dfa_run(da, v)

C3_Witness ==
    /\ op = "minimize"
    /\ Len(d.transitions) < Len(da.transitions)
    /\ \E v \in Words : Len(v) >= 2 /\ dfa_run(d, v) = "true"
    /\ \E v \in WordsOver(da.alphabet) : dfa_run(d, v) = "false"

\* C4 as stated: minimize(a) is the minimal complete DFA: it has as many
\* states as the language of a has Myhill-Nerode classes over a's alphabet.
C4_MinimalComplete ==
    op = "minimize" => Len(d.transitions) = NerodeClasses(da)

\* C4 as amended: minimize(a) is the minimal partial DFA: it has one state
\* per Myhill-Nerode class with a non-empty residual language (the dead
\* class gets no state), and one state when the language is empty.
C4_MinimalPartial ==
    op = "minimize" =>
        Len(d.transitions) = IF LiveClasses(da) = 0 THEN 1 ELSE LiveClasses(da)

C4_Witness ==
    /\ op = "minimize"
    /\ Len(d.transitions) < Len(da.transitions)
    /\ NerodeClasses(da) = Len(d.transitions) + 1
    /\ LiveClasses(da) >= 2

\* C5: minimize is idempotent: minimizing the minimized DFA d changes
\* neither the language nor the number of states.
C5_MinimizeIdempotent ==
    op = "minimize" =>
        LET again == minimize(d)
        IN  /\ \A v \in Words : dfa_run(again, v) = dfa_run(d, v)
            /\ Len(again.transitions) = Len(d.transitions)

C5_Witness ==
    /\ op = "minimize"
    /\ Len(d.transitions) >= 2
    /\ Len(da.transitions) > Len(d.transitions)
    /\ Len(minimize(d).transitions) = Len(d.transitions)

\* C6: negate is complement over the alphabet: on every word over the
\* alphabet of da, the negated DFA d accepts exactly when da rejects, and
\* negating d again accepts exactly the words da accepts.
C6_NegateIsComplement ==
    op = "negate" =>
        /\ \A v \in WordsOver(da.alphabet) :
              (dfa_run(d, v) = "true") <=> (dfa_run(da, v) = "false")
        /\ LET twice == dfa_negate(d)
           IN  \A v \in Words : dfa_run(twice, v) = dfa_run(da, v)

C6_Witness ==
    /\ op = "negate"
    /\ ~dfa_is_complete(da)
    /\ da.finals # {}
    /\ Len(d.transitions) = Len(da.transitions) + 1
    /\ \E v \in WordsOver(da.alphabet) : Len(v) >= 2 /\ dfa_run(d, v) = "true"

\* C7: intersect computes the intersection: the DFA d = da.intersect(e)
\* accepts a word exactly when da and e both accept it, whatever their
\* alphabets.
C7_IntersectIsIntersection ==
    op = "intersect" =>
        \A v \in Words :
            (dfa_run(d, v) = "true") <=> (dfa_run(da, v) = "true" /\ dfa_run(e, v) = "true")

\* C8: concatenate computes the concatenation: x = a.concatenate(y)
\* accepts v exactly when v = u1 u2 with a accepting u1 and y accepting u2.
C8_ConcatenateIsConcatenation ==
    op = "concatenate" =>
        /\ pc = "build"
        /\ \A v \in Words : (nfa_run(x, v) = "true") <=> InConcat(a, y, v)

\* C9: kleene computes the Kleene closure: x = a.kleene() accepts v exactly
\* when v is a concatenation of words a accepts; its one initial state is
\* the added state, which is final.
C9_KleeneIsClosure ==
    op = "kleene" =>
        /\ pc = "build"
        /\ x.initials = {NLen(a)}
        /\ NLen(a) \in x.finals
        /\ \A v \in Words : (nfa_run(x, v) = "true") <=> InStar(a, v)

\* C10: new_length(al, l) and its DFA accept exactly the words of l
\* symbols of al, and reject every other word without failing.
C10_NewLengthExact ==
    op = "new_length" =>
        /\ \A v \in Words : nfa_run(x, v) = ExactLength(x.alphabet, LengthArg, v)
        /\ \A t \in to_dfa_outcomes(x) :
              /\ ~IsPanic(t)
              /\ \A v \in Words : dfa_run(t, v) = ExactLength(x.alphabet, LengthArg, v)

\* C11: the NFA index invariant: in every NFA a constructor and any
\* sequence of operations produce, every state index in initials, finals
\* and transition targets is below transitions.len().
C11_IndexInvariant == pc = "build" => IndexValid(x)

\* The lower bound repeat derives, and whether the range holds no count.
RangeStart ==
    IF range.start[1] = "Included" THEN range.start[2]
    ELSE IF range.start[1] = "Excluded" THEN range.start[2] + 1
    ELSE 0

RangeIsEmpty ==
    \/ range.end[1] = "Included" /\ range.end[2] < RangeStart
    \/ range.end[1] = "Excluded" /\ range.end[2] <= RangeStart

\* C12: repeat returns the empty-language automaton for every range whose
\* upper bound is below its lower bound (a..=b with b < a, a..b with
\* b <= a, b >= 0), and deriving the bounds never overflows or underflows.
C12_RepeatEmptyRange ==
    (op = "repeat" /\ RangeIsEmpty) =>
        /\ pc = "build"
        /\ x = new_empty(a.alphabet)

\* C15: is_full decides totality: a.is_full() answers true exactly when a
\* accepts every word over its alphabet, for NFAs (x) and for DFAs (d).
C15_IsFullDecidesTotality ==
    /\ op = "is_full" =>
          (r = "true" <=> LanguageIncluded(new_full(x.alphabet), x))
    /\ op = "dfa_is_full" =>
          (r = "true" <=> LanguageIncluded(new_full(d.alphabet), dfa_to_nfa(d)))

\* C16: make_reachable deletes exactly the states not reachable from an
\* initial state and renumbers the survivors densely in traversal-discovery
\* order, remapping initials, finals and targets alike, so the language is
\* unchanged.
C16_MakeReachableRenumbers ==
    op = "make_reachable" =>
        /\ pc = "build"
        /\ \E o \in DiscoveryOrders(a) : x = Renumbered(a, o)
        /\ \A v \in Words : nfa_run(x, v) = nfa_run(a, v)

\* C13: the parser honours operator precedence: whenever read_union
\* accepts, the tree it returns is the one the tokens it consumed denote
\* when each suffix wraps only the letter or group before it (the first
\* suffix innermost), adjacent items form one Concat, '|' separates the
\* Concat groups of one Union, and a group of one child is that child.
C13_ParserPrecedence ==
    (op = "read_union" /\ r = "Ok") => tree = Denotes(SubSeq(tokens, 1, pos))

\* a*?. is accepted and read as Concat([(a*)?, .]).
C13_Witness ==
    /\ op = "read_union"
    /\ r = "Ok"
    /\ tokens = << <<"Letter", "a">>, <<"Kleene", "*">>, <<"Question", "?">>, <<"Dot", ".">> >>
    /\ pos = 4
    /\ tree = OpConcat(<< OpRepeat(OpRepeat(OpLetter("a"), 0, None), 0, Some(1)), OpDot >>)

\* C14: syntax failures are error values: on a token queue that contains
\* an Error token, a '(' that is never closed or a quantifier with no
\* operand before it, read_union returns Err and neither aborts nor
\* returns a tree.
HasErrorToken == \E i \in 1..Len(tokens) : tokens[i][1] = "Error"

HasUnclosedParen ==
    \E i \in 1..Len(tokens) :
        /\ tokens[i][1] = "Lpar"
        /\ \A j \in i..Len(tokens) : Depth(tokens, j) > Depth(tokens, i - 1)

HasDanglingQuantifier ==
    \E i \in 1..Len(tokens) :
        /\ tokens[i][1] \in Quantifiers
        /\ i = 1 \/ tokens[i - 1][1] \in {"Union", "Lpar"}

C14_SyntaxFailuresAreErr ==
    (op = "read_union" /\ (HasErrorToken \/ HasUnclosedParen \/ HasDanglingQuantifier)) =>
        /\ pc # "panic"
        /\ r = "Err"

\* C17: subset construction terminates: once to_dfa has queued the initial
\* subset, the worklist is worked off without aborting; each subset is
\* non-empty, has one DFA state and is queued once, so the worklist never
\* holds more than the 2^n - 1 non-empty subsets; and every state of the
\* DFA returned is reachable from the initial state 0.
C17_SubsetConstructionTerminates ==
    /\ op = "small_to_dfa" =>
          /\ pc # "panic"
          /\ \A i \in 1..Len(st.sets) : st.sets[i] # {}
          /\ \A i, j \in 1..Len(st.sets) : st.sets[i] = st.sets[j] => i = j
          /\ Len(st.trans) = Len(st.sets) /\ Len(st.keys) = Len(st.sets)
          /\ pos <= Len(st.sets) + 1
          /\ Len(st.sets) < 2 ^ NLen(x)
    /\ (op = "to_dfa" /\ pc = "dfa") => DReach(d) \ {Dead} = 0..(Len(d.transitions) - 1)

====
